---- MODULE Spec2Model ----
(***************************************************************************)
(* fetchbugs (src/main.rs): builds the graph of WebRender bugs from the    *)
(* bugzilla records, classifies every bug by whether it transitively       *)
(* blocks the "wr-projects" meta bug, and counts, per project bug, the     *)
(* bugs that transitively block it.                                        *)
(*                                                                         *)
(* Strings the program inspects are sequences: a cf_rank string is a       *)
(* sequence of one-character strings, a summary is a sequence of tokens.   *)
(* Option<T> is <<>> for None and <<x>> for Some(x).  HashMap iteration    *)
(* order is unspecified in Rust; every loop over a map picks any key not   *)
(* yet visited.  Unbounded recursion ends in a stack overflow, which       *)
(* aborts the process: the call stack holds StackLimit frames.             *)
(***************************************************************************)
EXTENDS Integers, Sequences, FiniteSets, TLC

\* ---------------------------------------------------------------- bounds
NumIds == 3
MaxEdges == 3
StackLimit == 8

IssueIds == 1..NumIds
Outside == {99}
Targets == IssueIds \cup Outside

\* ------------------------------------------------------- program constants
ROOT_ALIAS == "wr-projects"
PROJECT_TAG == <<"[project]">>
PROJECT_PREFIX == <<"[meta]", " ", "[project]", " ">>
URL_BASE == "https://bugzilla.mozilla.org/show_bug.cgi?id="
I32_MAX == 2147483647
NO_RANK == -1

None == <<>>
Some(x) == <<x>>

\* ------------------------------------------------------------ pure helpers
Range(s) == {s[k] : k \in 1..Len(s)}

Digits == <<"0", "1", "2", "3", "4", "5", "6", "7", "8", "9">>
IsDigit(c) == \E k \in 1..10 : Digits[k] = c
DigitVal(c) == (CHOOSE k \in 1..10 : Digits[k] = c) - 1

\* whether acc * 10 + sign * d stays within i32 (checked_mul, then checked_add
\* or checked_sub), computed without leaving the range itself
FitsI32(acc, d, sign) ==
    IF sign = 1
    THEN acc <= (I32_MAX - d) \div 10
    ELSE \/ (0 - acc) <= (I32_MAX - d) \div 10
         \/ (0 - acc) = I32_MAX \div 10 /\ d = (I32_MAX % 10) + 1

RECURSIVE ParseDigits(_, _, _, _)
\* accumulates digit by digit as core::num does, failing on a non-digit or
\* on leaving the i32 range
ParseDigits(s, k, acc, sign) ==
    IF k > Len(s) THEN [ok |-> TRUE, val |-> acc]
    ELSE IF ~IsDigit(s[k]) THEN [ok |-> FALSE, val |-> 0]
    ELSE IF ~FitsI32(acc, DigitVal(s[k]), sign) THEN [ok |-> FALSE, val |-> 0]
    ELSE ParseDigits(s, k + 1, acc * 10 + sign * DigitVal(s[k]), sign)

\* str::parse::<i32>: optional sign, then at least one digit
ParseI32(s) ==
    IF Len(s) = 0 THEN [ok |-> FALSE, val |-> 0]
    ELSE IF s[1] \in {"+", "-"}
         THEN IF Len(s) = 1 THEN [ok |-> FALSE, val |-> 0]
              ELSE ParseDigits(s, 2, 0, IF s[1] = "-" THEN -1 ELSE 1)
         ELSE ParseDigits(s, 1, 0, 1)

\* cf_rank.map_or(-1, |r| r.parse::<i32>().unwrap()); ok = FALSE is the panic
ParseRank(cf_rank) ==
    IF cf_rank = None THEN [ok |-> TRUE, val |-> NO_RANK] ELSE ParseI32(cf_rank[1])

\* alias == Some("wr-projects")
IsRootAlias(alias) == alias = Some(ROOT_ALIAS)

\* the assertion left out
AssertRootUnsetSkipped(root) == TRUE

\* assert!(root_project_id.is_none())
AssertRootUnset(root) == root = None

\* str::contains on token sequences
Contains(s, pat) ==
    \E k \in 0..(Len(s) - Len(pat)) : \A j \in 1..Len(pat) : s[k + j] = pat[j]

\* str::strip_prefix: Some(rest) or None
StripPrefix(s, pre) ==
    IF Len(s) >= Len(pre) /\ \A j \in 1..Len(pre) : s[j] = pre[j]
    THEN Some(SubSeq(s, Len(pre) + 1, Len(s)))
    ELSE None

UrlOf(id) == <<URL_BASE, id>>

\* HashMap::insert
MapInsert(m, k, v) == [x \in (DOMAIN m) \cup {k} |-> IF x = k THEN v ELSE m[x]]
EmptyMap == [x \in {} |-> 0]

\* ------------------------------------------------------ reachability engine
RECURSIVE blocks_wr_projects(_, _, _)
RECURSIVE ScanBlocks(_, _, _, _)

\* the loop returning whatever its first edge yields
ScanFirstEdgeOnly(bl, blocks, k, depth) ==
    IF k > Len(blocks) THEN [overflow |-> FALSE, value |-> FALSE]
    ELSE blocks_wr_projects(bl, blocks[k], depth + 1)

\* the for loop of blocks_wr_projects over bug.blocks from position k
ScanBlocks(bl, blocks, k, depth) ==
    IF k > Len(blocks) THEN [overflow |-> FALSE, value |-> FALSE]
    ELSE LET r == blocks_wr_projects(bl, blocks[k], depth + 1)
         IN  IF r.overflow THEN r
             ELSE IF r.value THEN [overflow |-> FALSE, value |-> TRUE]
             ELSE ScanBlocks(bl, blocks, k + 1, depth)

\* an id outside the graph taken to block the root
blocks_wr_projects_MissingTrue(bl, id, depth) ==
    IF depth > StackLimit THEN [overflow |-> TRUE, value |-> FALSE]
    ELSE IF id = bl.root_project_id THEN [overflow |-> FALSE, value |-> TRUE]
    ELSE IF id \in DOMAIN bl.bugs THEN ScanBlocks(bl, bl.bugs[id].blocks, 1, depth)
    ELSE [overflow |-> FALSE, value |-> TRUE]

\* BugList::blocks_wr_projects in a frame at the given stack depth
blocks_wr_projects(bl, id, depth) ==
    IF depth > StackLimit THEN [overflow |-> TRUE, value |-> FALSE]
    ELSE IF id = bl.root_project_id THEN [overflow |-> FALSE, value |-> TRUE]
    ELSE IF id \in DOMAIN bl.bugs THEN ScanBlocks(bl, bl.bugs[id].blocks, 1, depth)
    ELSE [overflow |-> FALSE, value |-> FALSE]

\* ------------------------------------------------ project attribution engine
\* the count set to 1 instead of incremented
CountBlockerAssign(info, blocker_id) ==
    IF blocker_id \in DOMAIN info
    THEN [info EXCEPT ![blocker_id].bug_count = 1]
    ELSE info

\* project.bug_count += 1 when blocker_id is a key of project_bug_info
CountBlocker(info, blocker_id) ==
    IF blocker_id \in DOMAIN info
    THEN [info EXCEPT ![blocker_id].bug_count = @ + 1]
    ELSE info

RECURSIVE block_project_bugs(_, _, _, _)
RECURSIVE WalkBlocks(_, _, _, _, _)

\* the for loop of block_project_bugs over bug.blocks from position k
WalkBlocks(bl, blocks, k, info, depth) ==
    IF k > Len(blocks) THEN [overflow |-> FALSE, info |-> info]
    ELSE LET r == block_project_bugs(blocks[k], bl, CountBlocker(info, blocks[k]), depth + 1)
         IN  IF r.overflow THEN r
             ELSE WalkBlocks(bl, blocks, k + 1, r.info, depth)

\* the visited issue itself counted on entry, the start issue included
block_project_bugs_CountsVisited(id, bl, info, depth) ==
    IF depth > StackLimit THEN [overflow |-> TRUE, info |-> info]
    ELSE IF id \in DOMAIN bl.bugs
         THEN WalkBlocks(bl, bl.bugs[id].blocks, 1, CountBlocker(info, id), depth)
    ELSE [overflow |-> FALSE, info |-> info]

\* block_project_bugs in a frame at the given stack depth; info is the map
\* as mutated so far
block_project_bugs(id, bl, info, depth) ==
    IF depth > StackLimit THEN [overflow |-> TRUE, info |-> info]
    ELSE IF id \in DOMAIN bl.bugs THEN WalkBlocks(bl, bl.bugs[id].blocks, 1, info, depth)
    ELSE [overflow |-> FALSE, info |-> info]

\* ------------------------------------------------------------ report sort
RECURSIVE InsertByKey(_, _)
\* the comparison reversed: descending order
InsertByKeyDescending(sorted, p) ==
    IF sorted = <<>> THEN <<p>>
    ELSE IF sorted[Len(sorted)].severity >= p.severity THEN Append(sorted, p)
    ELSE Append(InsertByKey(SubSeq(sorted, 1, Len(sorted) - 1), p), sorted[Len(sorted)])

\* places p after every element whose severity is <= its own (stable)
InsertByKey(sorted, p) ==
    IF sorted = <<>> THEN <<p>>
    ELSE IF sorted[Len(sorted)].severity <= p.severity THEN Append(sorted, p)
    ELSE Append(InsertByKey(SubSeq(sorted, 1, Len(sorted) - 1), p), sorted[Len(sorted)])

RECURSIVE SortPrefix(_, _)
SortPrefix(list, n) ==
    IF n = 0 THEN <<>> ELSE InsertByKey(SortPrefix(list, n - 1), list[n])

\* project_bug_list.sort_by_key(|p| p.severity)
SortBySeverity(list) == SortPrefix(list, Len(list))

\* ------------------------------------------------------------------ inputs
Rec(id, alias, cf_rank, summary, blocks) ==
    [id |-> id, alias |-> alias, cf_rank |-> cf_rank, summary |-> summary, blocks |-> blocks]

PlainSummary == <<"Foo">>
ProjectSummary == <<"[meta]", " ", "[project]", " ", "Foo">>
BareTagSummary == <<"[project]", " ", "Foo">>

RECURSIVE SeqsOfLen(_)
SeqsOfLen(n) ==
    IF n = 0 THEN {<<>>}
    ELSE {Append(s, t) : s \in SeqsOfLen(n - 1), t \in Targets}

RECURSIVE Shapes(_, _)
\* every assignment of blocks lists to issues 1..n with at most e edges in all
Shapes(n, e) ==
    IF n = 0 THEN {<<>>}
    ELSE UNION {{Append(g, b) : g \in Shapes(n - 1, e - len), b \in SeqsOfLen(len)} : len \in 0..e}

RankOf(k) ==
    CASE k % 3 = 1 -> Some(<<"3">>)
      [] k % 3 = 2 -> None
      [] OTHER -> Some(<<"5">>)

\* issue 1 carries the root alias; issues 1, 2, 3 are projects ranked 3, -1, 5
\* and any further issue is not a project
ShapeInputs ==
    {[k \in 1..NumIds |->
        Rec(k, IF k = 1 THEN Some(ROOT_ALIAS) ELSE None, RankOf(k),
            IF k <= 3 THEN ProjectSummary ELSE PlainSummary, g[k])]
     : g \in Shapes(NumIds, MaxEdges)}

AliasChoices == {None, Some(ROOT_ALIAS), Some("wr-projects-old")}
SummaryChoices == {PlainSummary, ProjectSummary, BareTagSummary}
RankChoices ==
    {None, Some(<<"3">>), Some(<<"-", "1">>), Some(<<"+", "7">>), Some(<<"x">>), Some(<<>>),
     Some(<<"2", "1", "4", "7", "4", "8", "3", "6", "4", "8">>)}

\* a chain 3 -> 2 -> 1 with a dead end, under every choice of aliases and summaries
DecorInputs ==
    {<<Rec(1, a[1], None, s[1], <<>>),
       Rec(2, a[2], Some(<<"3">>), s[2], <<1, 99>>),
       Rec(3, a[3], Some(<<"5">>), s[3], <<2>>)>>
     : a \in [1..3 -> AliasChoices], s \in [1..3 -> SummaryChoices]}

RankInputs ==
    {<<Rec(1, Some(ROOT_ALIAS), c[1], ProjectSummary, <<>>),
       Rec(2, None, c[2], ProjectSummary, <<1>>),
       Rec(3, None, c[3], ProjectSummary, <<1>>)>>
     : c \in [1..3 -> RankChoices]}

\* root=1; 2 blocks 1; 3 blocks 99 (missing); 4 blocks 2
ScenarioInput ==
    <<Rec(1, Some(ROOT_ALIAS), None, ProjectSummary, <<>>),
      Rec(2, None, None, PlainSummary, <<1>>),
      Rec(3, None, None, PlainSummary, <<99>>),
      Rec(4, None, None, PlainSummary, <<2>>)>>

\* diamond onto the root, which is a project: 2 blocks 3 and 4, both block 1
DiamondOnRoot ==
    <<Rec(2, None, None, PlainSummary, <<3, 4>>),
      Rec(3, None, None, PlainSummary, <<1>>),
      Rec(4, None, None, PlainSummary, <<1>>),
      Rec(1, Some(ROOT_ALIAS), Some(<<"3">>), ProjectSummary, <<>>)>>

\* diamond onto project 5, which blocks the root: 2 blocks 3 and 4, both block 5
DiamondOnProject ==
    <<Rec(1, Some(ROOT_ALIAS), None, PlainSummary, <<>>),
      Rec(2, None, None, PlainSummary, <<3, 4>>),
      Rec(3, None, None, PlainSummary, <<5>>),
      Rec(4, None, None, PlainSummary, <<5>>),
      Rec(5, None, Some(<<"5">>), ProjectSummary, <<1>>)>>

\* 2-cycle 2 -> 3 -> 2 away from the root
TwoCycleInput ==
    <<Rec(1, Some(ROOT_ALIAS), None, ProjectSummary, <<>>),
      Rec(2, None, None, PlainSummary, <<3>>),
      Rec(3, None, None, PlainSummary, <<2>>)>>

\* 3-cycle 2 -> 3 -> 4 -> 2 away from the root
ThreeCycleInput ==
    <<Rec(1, Some(ROOT_ALIAS), None, ProjectSummary, <<>>),
      Rec(2, None, None, PlainSummary, <<3>>),
      Rec(3, None, None, PlainSummary, <<4>>),
      Rec(4, None, None, PlainSummary, <<2>>)>>

\* a cycle behind a reachable issue: 2 blocks [root, 3] and 3 blocks 2
ReachableCycleInput ==
    <<Rec(1, Some(ROOT_ALIAS), None, ProjectSummary, <<>>),
      Rec(2, None, None, PlainSummary, <<1, 3>>),
      Rec(3, None, None, PlainSummary, <<2>>)>>

\* a repeated id: the later record replaces the earlier one
RepeatedIdInput ==
    <<Rec(1, Some(ROOT_ALIAS), None, ProjectSummary, <<>>),
      Rec(2, None, Some(<<"3">>), ProjectSummary, <<1>>),
      Rec(2, None, Some(<<"5">>), PlainSummary, <<99>>)>>

\* the root record twice
RepeatedRootInput ==
    <<Rec(1, Some(ROOT_ALIAS), None, ProjectSummary, <<>>),
      Rec(1, Some(ROOT_ALIAS), None, ProjectSummary, <<>>)>>

Fixtures ==
    {ScenarioInput, DiamondOnRoot, DiamondOnProject, TwoCycleInput, ThreeCycleInput,
     ReachableCycleInput, RepeatedIdInput, RepeatedRootInput, <<>>}

Inputs == ShapeInputs \cup DecorInputs \cup RankInputs \cup Fixtures

\* ------------------------------------------------------------------- state
VARIABLES
    records,               \* response.bugs, the input of the run
    pc,                    \* position of main: new, collect, classify, assemble, done, abort
    failure,               \* what aborted the process, "none" while it runs
    i,                     \* BugList::new: index of the next record
    bugs,                  \* BugList.bugs
    root_project_id,       \* Option<BugId> of BugList::new, then BugList.root_project_id
    todo,                  \* keys the running map iteration has not yielded yet
    project_count,
    project_bug_info,      \* HashMap<BugId, ProjectInfo>
    unreachable_count,
    unreachable_bug_info,  \* Vec<BugInfo>
    propagated,            \* start id |-> number of block_project_bugs calls main made for it
    project_bug_list,      \* Vec<ProjectInfo>
    bugs_in_projects

vars == <<records, pc, failure, i, bugs, root_project_id, todo, project_count,
          project_bug_info, unreachable_count, unreachable_bug_info, propagated,
          project_bug_list, bugs_in_projects>>

report == <<project_count, project_bug_info, unreachable_count, unreachable_bug_info,
            propagated, project_bug_list, bugs_in_projects>>

Init ==
    /\ records \in Inputs
    /\ pc = "new"
    /\ failure = "none"
    /\ i = 1
    /\ bugs = EmptyMap
    /\ root_project_id = None
    /\ todo = {}
    /\ project_count = 0
    /\ project_bug_info = EmptyMap
    /\ unreachable_count = 0
    /\ unreachable_bug_info = <<>>
    /\ propagated = EmptyMap
    /\ project_bug_list = <<>>
    /\ bugs_in_projects = 0

Abort(why) ==
    /\ pc' = "abort"
    /\ failure' = why

\* one iteration of the loop of BugList::new
NewStep ==
    /\ pc = "new"
    /\ i <= Len(records)
    /\ LET bug == records[i]
           rank == ParseRank(bug.cf_rank)
       IN  IF IsRootAlias(bug.alias) /\ ~AssertRootUnset(root_project_id)
           THEN /\ Abort("root_duplicated")
                /\ UNCHANGED <<i, bugs, root_project_id>>
           ELSE IF ~rank.ok
           THEN /\ Abort("rank_parse")
                /\ root_project_id' = IF IsRootAlias(bug.alias) THEN Some(bug.id)
                                      ELSE root_project_id
                /\ UNCHANGED <<i, bugs>>
           ELSE /\ root_project_id' = IF IsRootAlias(bug.alias) THEN Some(bug.id)
                                      ELSE root_project_id
                /\ bugs' = MapInsert(bugs, bug.id,
                              [summary |-> bug.summary, blocks |-> bug.blocks, rank |-> rank.val])
                /\ i' = i + 1
                /\ UNCHANGED <<pc, failure>>
    /\ UNCHANGED <<records, todo>>
    /\ UNCHANGED report

\* the end of BugList::new: root_project_id.unwrap(), then main starts its
\* first loop over bugs.bugs
NewReturn ==
    /\ pc = "new"
    /\ i > Len(records)
    /\ IF root_project_id = None
       THEN /\ Abort("root_missing")
            /\ UNCHANGED todo
       ELSE /\ pc' = "collect"
            /\ todo' = DOMAIN bugs
            /\ UNCHANGED failure
    /\ UNCHANGED <<records, i, bugs, root_project_id>>
    /\ UNCHANGED report

\* one iteration of main's project collection loop, for the key the map yields
CollectStep ==
    /\ pc = "collect"
    /\ \E id \in todo :
         LET bug == bugs[id]
             summary == StripPrefix(bug.summary, PROJECT_PREFIX)
             last == todo = {id}
         IN  IF ~Contains(bug.summary, PROJECT_TAG)
             THEN /\ pc' = IF last THEN "classify" ELSE pc
                  /\ todo' = IF last THEN DOMAIN bugs ELSE todo \ {id}
                  /\ UNCHANGED <<failure, project_bug_info, project_count>>
             ELSE IF summary = None
             THEN /\ Abort("strip_prefix")
                  /\ todo' = todo \ {id}
                  /\ UNCHANGED <<project_bug_info, project_count>>
             ELSE /\ project_bug_info' = MapInsert(project_bug_info, id,
                        [id |-> id, url |-> UrlOf(id), summary |-> summary[1],
                         bug_count |-> 0, severity |-> bug.rank])
                  /\ project_count' = project_count + 1
                  /\ pc' = IF last THEN "classify" ELSE pc
                  /\ todo' = IF last THEN DOMAIN bugs ELSE todo \ {id}
                  /\ UNCHANGED failure
    /\ UNCHANGED <<records, i, bugs, root_project_id, unreachable_count,
                   unreachable_bug_info, propagated, project_bug_list, bugs_in_projects>>

\* the calls of block_project_bugs main has made with start id
Calls(log, id) == IF id \in DOMAIN log THEN log[id] ELSE 0

BugListOf(b, root) == [bugs |-> b, root_project_id |-> root[1]]

\* the propagation run for every issue
ShouldPropagateAlways(reach) == TRUE

\* if bugs.blocks_wr_projects(id) { block_project_bugs(...) } else { ... }
ShouldPropagate(reach) == reach.value

\* one iteration of main's classification loop, for the key the map yields
ClassifyStep ==
    /\ pc = "classify"
    /\ \E id \in todo :
         LET bl == BugListOf(bugs, root_project_id)
             reach == blocks_wr_projects(bl, id, 1)
             walk == block_project_bugs(id, bl, project_bug_info, 1)
             last == todo = {id}
         IN  IF reach.overflow
             THEN /\ Abort("stack_overflow_reach")
                  /\ todo' = todo \ {id}
                  /\ UNCHANGED <<project_bug_info, propagated, unreachable_bug_info,
                                 unreachable_count>>
             ELSE IF ShouldPropagate(reach)
             THEN /\ propagated' = MapInsert(propagated, id, Calls(propagated, id) + 1)
                  /\ project_bug_info' = walk.info
                  /\ IF walk.overflow
                     THEN /\ Abort("stack_overflow_propagate")
                          /\ todo' = todo \ {id}
                     ELSE /\ pc' = IF last THEN "assemble" ELSE pc
                          /\ todo' = IF last THEN DOMAIN project_bug_info ELSE todo \ {id}
                          /\ UNCHANGED failure
                  /\ UNCHANGED <<unreachable_bug_info, unreachable_count>>
             ELSE /\ unreachable_bug_info' = Append(unreachable_bug_info,
                        [id |-> id, url |-> UrlOf(id), summary |-> bugs[id].summary])
                  /\ unreachable_count' = unreachable_count + 1
                  /\ pc' = IF last THEN "assemble" ELSE pc
                  /\ todo' = IF last THEN DOMAIN project_bug_info ELSE todo \ {id}
                  /\ UNCHANGED <<failure, project_bug_info, propagated>>
    /\ UNCHANGED <<records, i, bugs, root_project_id, project_count, project_bug_list,
                   bugs_in_projects>>

\* one iteration of main's loop that moves project_bug_info into project_bug_list
AssembleStep ==
    /\ pc = "assemble"
    /\ \E id \in todo :
         /\ bugs_in_projects' = bugs_in_projects + project_bug_info[id].bug_count
         /\ project_bug_list' = Append(project_bug_list, project_bug_info[id])
         /\ todo' = todo \ {id}
    /\ UNCHANGED <<records, pc, failure, i, bugs, root_project_id, project_count,
                   project_bug_info, unreachable_count, unreachable_bug_info, propagated>>

\* project_bug_list.sort_by_key once the loop is exhausted; the report is final.
\* The loop moves the summaries out of project_bug_info; the variable keeps
\* what the map held when the loop began.
SortStep ==
    /\ pc = "assemble"
    /\ todo = {}
    /\ project_bug_list' = SortBySeverity(project_bug_list)
    /\ pc' = "done"
    /\ UNCHANGED <<records, failure, i, bugs, root_project_id, todo, project_count,
                   project_bug_info, unreachable_count, unreachable_bug_info, propagated,
                   bugs_in_projects>>

Next == NewStep \/ NewReturn \/ CollectStep \/ ClassifyStep \/ AssembleStep \/ SortStep

Spec == Init /\ [][Next]_vars

TypeOK ==
    /\ pc \in {"new", "collect", "classify", "assemble", "done", "abort"}
    /\ (pc = "abort") = (failure # "none")

\* ------------------------------------------------- vocabulary of the claims
\* the graph is built: BugList::new has returned
Built == pc \in {"collect", "classify", "assemble", "done"}
         \/ (pc = "abort" /\ failure \in {"strip_prefix", "stack_overflow_reach",
                                         "stack_overflow_propagate"})

BL == BugListOf(bugs, root_project_id)

\* x blocks y: x is in the graph and lists y
Edge(x, y) == x \in DOMAIN bugs /\ y \in Range(bugs[x].blocks)

RECURSIVE GrowReach(_)
GrowReach(R) ==
    LET R2 == R \cup {x \in DOMAIN bugs : \E y \in R : Edge(x, y)}
    IN  IF R2 = R THEN R ELSE GrowReach(R2)

\* the ids with a chain of blocks edges to the root through issues of the graph
ReachSet == GrowReach({BL.root_project_id})

RECURSIVE GrowDesc(_)
GrowDesc(D) ==
    LET D2 == D \cup {y \in Targets \cup DOMAIN bugs : \E x \in D : Edge(x, y)}
    IN  IF D2 = D THEN D ELSE GrowDesc(D2)

\* the ids at the end of a chain of one or more blocks edges starting at s
Desc(s) == GrowDesc({y \in Targets \cup DOMAIN bugs : Edge(s, y)})

OnCycle(s) == s \in Desc(s)

Count(seq, x) == Cardinality({k \in 1..Len(seq) : seq[k] = x})

UnreachableIds == [k \in 1..Len(unreachable_bug_info) |-> unreachable_bug_info[k].id]

\* the step is the classification loop's iteration for issue s
ClassifyOf(s) == pc = "classify" /\ s \in todo /\ (todo = {s} \/ todo' = todo \ {s})

RootRecords == {k \in 1..Len(records) : IsRootAlias(records[k].alias)}

\* ------------------------------------------------------------------ claims

\* C1: every call blocks_wr_projects(id) on a built graph returns, and returns
\* false for an id with no chain to the root (among them the issues of a 2-cycle
\* or 3-cycle away from the root).
C1_BlocksRootTerminates ==
    Built =>
        \A id \in DOMAIN bugs \cup Targets :
            LET r == blocks_wr_projects(BL, id, 1)
            IN  /\ ~r.overflow
                /\ id \notin ReachSet => ~r.value

\* C2: whenever blocks_wr_projects(id) returns, its result is true exactly when
\* id is the root or an issue of the graph with a chain of blocks edges to the
\* root through issues of the graph; the call for the root itself always
\* returns true and the call for an id outside the graph returns false.
C2_BlocksRootIsReachability ==
    Built =>
        LET reachable == ReachSet
        IN  /\ \A id \in DOMAIN bugs \cup Targets :
                  LET r == blocks_wr_projects(BL, id, 1)
                  IN  /\ ~r.overflow => (r.value <=> id \in reachable)
                      /\ id = BL.root_project_id => r = [overflow |-> FALSE, value |-> TRUE]
                      /\ id \notin DOMAIN bugs => r = [overflow |-> FALSE, value |-> FALSE]

\* the run over root=1, 2 blocks 1, 3 blocks 99, 4 blocks 2 has finished with
\* 1, 2, 4 propagated and 3 listed as unreachable
C2_Witness ==
    /\ records = ScenarioInput
    /\ pc = "done"
    /\ DOMAIN propagated = {1, 2, 4}
    /\ Range(UnreachableIds) = {3}

\* C3: unless exactly one record carries the root alias, the run never gets
\* past BugList::new: it aborts there, with no map iteration, classification or
\* propagation started; the abort for a missing root only comes with no such
\* record and the abort for a duplicated root only with two or more.
C3_SingleRootOrAbort ==
    /\ Cardinality(RootRecords) # 1 =>
          /\ pc \in {"new", "abort"}
          /\ pc = "abort" => failure \in {"root_missing", "root_duplicated", "rank_parse"}
          /\ todo = {}
          /\ propagated = EmptyMap
          /\ unreachable_bug_info = <<>>
          /\ project_bug_info = EmptyMap
    /\ failure = "root_missing" => Cardinality(RootRecords) = 0
    /\ failure = "root_duplicated" => Cardinality(RootRecords) >= 2
    /\ (pc = "new" /\ i > Len(records) /\ Cardinality(RootRecords) = 0) => root_project_id = None

\* construction aborted on a second record carrying the root alias
C3_Witness ==
    /\ pc = "abort"
    /\ failure = "root_duplicated"
    /\ Cardinality(RootRecords) = 2
    /\ Len(records) = 3

\* C4: on the diamond (2 blocks 3 and 4, both block the project), the
\* propagation call starting from 2 increments the project's bug_count by
\* exactly 1.
C4_DiamondCountsOnce ==
    [][(records \in {DiamondOnRoot, DiamondOnProject} /\ ClassifyOf(2)) =>
          \A p \in DOMAIN project_bug_info :
              project_bug_info'[p].bug_count = project_bug_info[p].bug_count + 1]_vars

\* C5: once the classification loop has completed, every issue of the graph
\* with no chain to the root is in the unreachable list exactly once and was
\* never a propagation start, every other issue was the start of exactly one
\* propagation call and is not in the list, and unreachable_count is the
\* length of the list.
C5_ClassifiedExactlyOnce ==
    pc \in {"assemble", "done"} =>
        LET reachable == ReachSet
            listed == UnreachableIds
        IN  /\ \A id \in DOMAIN bugs :
                  IF id \in reachable
                  THEN Calls(propagated, id) = 1 /\ Count(listed, id) = 0
                  ELSE Calls(propagated, id) = 0 /\ Count(listed, id) = 1
            /\ DOMAIN propagated \cup Range(listed) = DOMAIN bugs
            /\ unreachable_count = Len(unreachable_bug_info)
            /\ \A k \in 1..Len(unreachable_bug_info) :
                  unreachable_bug_info[k] =
                      [id |-> listed[k], url |-> UrlOf(listed[k]),
                       summary |-> bugs[listed[k]].summary]

\* a completed loop that found both unreachable issues and several reachable ones
C5_Witness ==
    /\ pc = "done"
    /\ unreachable_count = 1
    /\ Cardinality(DOMAIN propagated) = 3
    /\ Cardinality(DOMAIN bugs) = 4

RECURSIVE WalksFrom(_, _, _)
\* the number of chains of one or more blocks edges from s to p, counted
\* along the blocks list of s from position k (defined where no cycle is met)
WalksFrom(s, k, p) ==
    IF s \notin DOMAIN bugs \/ k > Len(bugs[s].blocks) THEN 0
    ELSE (IF bugs[s].blocks[k] = p THEN 1 ELSE 0)
         + WalksFrom(bugs[s].blocks[k], 1, p)
         + WalksFrom(s, k + 1, p)

RECURSIVE SumWalks(_, _)
SumWalks(S, p) ==
    IF S = {} THEN 0
    ELSE LET s == CHOOSE x \in S : TRUE
         IN  WalksFrom(s, 1, p) + SumWalks(S \ {s}, p)

\* the projects of the graph, by the summary's tag
ProjectIds == {id \in DOMAIN bugs : Contains(bugs[id].summary, PROJECT_TAG)}

\* C6: the counts a completed run reports are functions of the input graph
\* alone, whatever order the maps were iterated in: unreachable_count is the
\* number of issues with no chain to the root, project_count the number of
\* project issues, and each project's bug_count the number of chains of blocks
\* edges that lead to it from the issues that have a chain to the root.
C6_ResultsDependOnInputOnly ==
    pc = "done" =>
        LET reachable == ReachSet
        IN  /\ unreachable_count = Cardinality(DOMAIN bugs \ reachable)
            /\ project_count = Cardinality(ProjectIds)
            /\ DOMAIN project_bug_info = ProjectIds
            /\ \A p \in ProjectIds :
                  project_bug_info[p].bug_count = SumWalks(DOMAIN bugs \cap reachable, p)

\* a finished run with an unreachable issue and a project counted more than once
C6_Witness ==
    /\ pc = "done"
    /\ unreachable_count >= 1
    /\ project_count >= 2
    /\ \E p \in DOMAIN project_bug_info : project_bug_info[p].bug_count >= 2

Severities == [k \in 1..Len(project_bug_list) |-> project_bug_list[k].severity]

\* C7: the final list holds every collected project summary exactly once, in
\* ascending order of severity, so that ranks 3, -1, 5 come out as -1, 3, 5.
C7_SortedBySeverity ==
    pc = "done" =>
        /\ Len(project_bug_list) = Cardinality(DOMAIN project_bug_info)
        /\ \A id \in DOMAIN project_bug_info : Count(project_bug_list, project_bug_info[id]) = 1
        /\ \A k \in 1..(Len(project_bug_list) - 1) : Severities[k] <= Severities[k + 1]
        /\ (Len(Severities) = 3 /\ Range(Severities) = {3, -1, 5}) => Severities = <<-1, 3, 5>>

\* the projects ranked 3, -1 and 5 have been sorted
C7_Witness ==
    /\ pc = "done"
    /\ Severities = <<-1, 3, 5>>
    /\ [k \in 1..3 |-> project_bug_list[k].id] = <<2, 1, 3>>

\* C8: no propagation call overflows the stack: each one returns.
C8_PropagationTerminates == failure # "stack_overflow_propagate"

\* C9: the propagation engine is never invoked for an issue with no chain to
\* the root and never twice for the same issue; the classification loop's
\* iteration for an issue whose reachability test returns invokes it once if
\* the issue has a chain to the root and otherwise leaves every project
\* summary as it was; once the loop has completed it has been invoked exactly
\* once for every issue with a chain to the root, the root included.
C9_PropagateOnlyReachable ==
    /\ [](Built =>
            LET reachable == ReachSet
            IN  /\ \A s \in DOMAIN propagated : s \in reachable /\ propagated[s] = 1
                /\ pc \in {"assemble", "done"} =>
                      /\ DOMAIN propagated = DOMAIN bugs \cap reachable
                      /\ BL.root_project_id \in DOMAIN propagated)
    /\ [][\A s \in DOMAIN bugs :
            (ClassifyOf(s) /\ failure' # "stack_overflow_reach") =>
                IF s \in ReachSet
                THEN /\ Calls(propagated', s) = Calls(propagated, s) + 1
                     /\ \A t \in DOMAIN bugs \ {s} : Calls(propagated', t) = Calls(propagated, t)
                ELSE propagated' = propagated /\ project_bug_info' = project_bug_info]_vars

\* an unreachable issue that blocks a project was processed, the root had its
\* own pass, and the project has no count from the unreachable issue
C9_Witness ==
    /\ pc = "done"
    /\ Calls(propagated, BL.root_project_id) = 1
    /\ \E s \in DOMAIN bugs \ ReachSet :
          /\ s \in Range(UnreachableIds)
          /\ \E p \in DOMAIN project_bug_info :
                Edge(s, p) /\ project_bug_info[p].bug_count = 0

\* C10: a propagation call from an issue that lies on no cycle changes only
\* summaries of projects at the end of a chain of blocks edges from it, and
\* never the start issue's own summary.
C10_StartNotCounted ==
    [][\A s \in DOMAIN bugs :
          (ClassifyOf(s) /\ ~OnCycle(s)) =>
              /\ s \in DOMAIN project_bug_info => project_bug_info'[s] = project_bug_info[s]
              /\ \A p \in DOMAIN project_bug_info :
                    project_bug_info'[p] # project_bug_info[p] => p \in Desc(s)]_vars

\* a reachable project with blocks edges has had its pass, which counted for
\* another project and not for itself
C10_Witness ==
    /\ pc = "done"
    /\ \E s \in DOMAIN project_bug_info :
          /\ Calls(propagated, s) = 1
          /\ bugs[s].blocks # <<>>
          /\ project_bug_info[s].bug_count = 0
          /\ \E p \in DOMAIN project_bug_info : Edge(s, p) /\ project_bug_info[p].bug_count > 0
====
